---- MODULE Spec2Model ----
(***************************************************************************)
(* Model of the Calculator of code-ai-ide/samples/python/main.py: the      *)
(* seven math methods, calculate's validation / dispatch / history         *)
(* recording, get_history and clear_history.                               *)
(*                                                                         *)
(* Numbers.  Operands are Python ints.  A result is the exact real value   *)
(* the method denotes, written as a record [kind, n, d]:                   *)
(*   kind = "rat"  : the rational n/d in lowest terms, d > 0               *)
(*   kind = "sqrt" : the irrational square root of n          (d = 1)      *)
(*   kind = "log"  : the irrational logarithm of n in base d               *)
(* Lists are objects: heap maps an object id to the list's contents, and   *)
(* the attribute self.history and a caller's variable hold object ids.     *)
(***************************************************************************)
EXTENDS Integers, Sequences, FiniteSets, TLC

VARIABLES heap, history, operations, view, last, okCalls

vars == <<heap, history, operations, view, last, okCalls>>

---------------------------------------------------------------------------
(* Bounds of the model *)

\* longest history the sequence specification builds
MaxHist == 3

\* most operands one calculate call is given
MaxOperands == 3

\* operand values of the single-call specification
Values == {-1, 0, 1, 2}

\* symbols outside the operation table that calls are tried with
UnknownSymbols == {"foo", "%"}

---------------------------------------------------------------------------
(* Numbers *)

Abs(x) == IF x < 0 THEN -x ELSE x

RECURSIVE GCD(_, _)
GCD(a, b) == IF b = 0 THEN a ELSE GCD(b, a % b)

RECURSIVE IntPow(_, _)
IntPow(a, n) == IF n = 0 THEN 1 ELSE a * IntPow(a, n - 1)

\* the k >= j with base^k = a when p = base^j (base >= 2, a >= 1), or -1 when
\* a is no power of base
RECURSIVE PowerIndex(_, _, _, _)
PowerIndex(a, base, j, p) ==
    IF p = a THEN j
    ELSE IF p > a THEN -1
    ELSE PowerIndex(a, base, j + 1, p * base)

\* the rational n/d (d # 0) in lowest terms with a positive denominator
Rat(n, d) ==
    LET g == GCD(Abs(n), Abs(d))
        s == IF d < 0 THEN -1 ELSE 1
    IN  [kind |-> "rat", n |-> (s * n) \div g, d |-> Abs(d) \div g]

FromInt(x) == Rat(x, 1)

NoValue == [kind |-> "none", n |-> 0, d |-> 1]

---------------------------------------------------------------------------
(* Outcomes of a call: a returned value or a raised exception *)

NoExc == [type |-> "", msg |-> ""]

Return(v) == [kind |-> "return", value |-> v, exc |-> NoExc]

Raise(type, msg) ==
    [kind |-> "raise", value |-> NoValue, exc |-> [type |-> type, msg |-> msg]]

ValueError(msg) == Raise("ValueError", msg)

---------------------------------------------------------------------------
(* The seven operation methods *)

add(a, b) == Return(FromInt(a + b))

subtract(a, b) == Return(FromInt(a - b))

multiply(a, b) == Return(FromInt(a * b))

divide_NoZeroCheck(a, b) ==
    IF b = 0 THEN Raise("ZeroDivisionError", "division by zero")
    ELSE Return(Rat(a, b))

divide(a, b) ==
    IF b = 0 THEN ValueError("Cannot divide by zero")
    ELSE Return(Rat(a, b))

\* int ** int: exact for b >= 0; for b < 0 Python computes float(a) ** b,
\* which raises ZeroDivisionError when a = 0
power(a, b) ==
    IF b >= 0 THEN Return(FromInt(IntPow(a, b)))
    ELSE IF a = 0
         THEN Raise("ZeroDivisionError", "0.0 cannot be raised to a negative power")
         ELSE Return(Rat(1, IntPow(a, -b)))

sqrt(a) ==
    IF a < 0 THEN ValueError("Cannot calculate square root of negative number")
    ELSE IF \E r \in 0..a : r * r = a
         THEN Return(FromInt(CHOOSE r \in 0..a : r * r = a))
         ELSE Return([kind |-> "sqrt", n |-> a, d |-> 1])

DefaultBase == 10

\* math.log(a, base) is log(a) / log(base): a float division by zero when
\* base = 1
log(a, base) ==
    IF a <= 0 \/ base <= 0 THEN ValueError("Invalid arguments for logarithm")
    ELSE IF base = 1 THEN Raise("ZeroDivisionError", "float division by zero")
    ELSE IF PowerIndex(a, base, 0, 1) >= 0
         THEN Return(FromInt(PowerIndex(a, base, 0, 1)))
         ELSE Return([kind |-> "log", n |-> a, d |-> base])

---------------------------------------------------------------------------
(* Calculator.__init__: the operation table, symbol -> bound method *)

Symbols == {"+", "-", "*", "/", "**", "sqrt", "log"}

OperationTable ==
    [s \in Symbols |->
        CASE s = "+"    -> "add"
          [] s = "-"    -> "subtract"
          [] s = "*"    -> "multiply"
          [] s = "/"    -> "divide"
          [] s = "**"   -> "power"
          [] s = "sqrt" -> "sqrt"
          [] s = "log"  -> "log"]

TypeError == Raise("TypeError", "wrong number of positional arguments")

\* method(a): a bound method called with one positional argument
Invoke1(method, a) ==
    CASE method = "sqrt" -> sqrt(a)
      [] method = "log"  -> log(a, DefaultBase)
      [] OTHER           -> TypeError

\* method(a, b): a bound method called with two positional arguments
Invoke2(method, a, b) ==
    CASE method = "add"      -> add(a, b)
      [] method = "subtract" -> subtract(a, b)
      [] method = "multiply" -> multiply(a, b)
      [] method = "divide"   -> divide(a, b)
      [] method = "power"    -> power(a, b)
      [] method = "log"      -> log(a, b)
      [] OTHER               -> TypeError

---------------------------------------------------------------------------
(* Calculator.calculate, up to the computation of result *)

CountError12(operation) ==
    ValueError("Operation " \o operation \o " requires 1-2 operands")

CountError2(operation) ==
    ValueError("Operation " \o operation \o " requires at least 2 operands")

UnknownOperation(operation) == ValueError("Unknown operation: " \o operation)

Dispatch_SqrtIgnoresExtras(ops, operation, operands) ==
    IF operation \in {"sqrt", "log"}
    THEN IF Len(operands) = 1 \/ (Len(operands) >= 1 /\ operation = "sqrt")
         THEN Invoke1(ops[operation], operands[1])
         ELSE IF Len(operands) = 2 /\ operation = "log"
         THEN Invoke2(ops[operation], operands[1], operands[2])
         ELSE CountError12(operation)
    ELSE IF Len(operands) < 2
         THEN CountError2(operation)
         ELSE Invoke2(ops[operation], operands[1], operands[2])

Dispatch_UsesLastOperand(ops, operation, operands) ==
    IF operation \in {"sqrt", "log"}
    THEN IF Len(operands) = 1
         THEN Invoke1(ops[operation], operands[1])
         ELSE IF Len(operands) = 2 /\ operation = "log"
         THEN Invoke2(ops[operation], operands[1], operands[2])
         ELSE CountError12(operation)
    ELSE IF Len(operands) < 2
         THEN CountError2(operation)
         ELSE Invoke2(ops[operation], operands[1], operands[Len(operands)])

\* the operand-count validation and the call of the table entry, for an
\* operation of the table
Dispatch(ops, operation, operands) ==
    IF operation \in {"sqrt", "log"}
    THEN IF Len(operands) = 1
         THEN Invoke1(ops[operation], operands[1])
         ELSE IF Len(operands) = 2 /\ operation = "log"
         THEN Invoke2(ops[operation], operands[1], operands[2])
         ELSE CountError12(operation)
    ELSE IF Len(operands) < 2
         THEN CountError2(operation)
         ELSE Invoke2(ops[operation], operands[1], operands[2])

Evaluate_CountCheckFirst(ops, operation, operands) ==
    IF Len(operands) < 1
    THEN CountError2(operation)
    ELSE IF operation \notin DOMAIN ops
    THEN UnknownOperation(operation)
    ELSE Dispatch(ops, operation, operands)

\* the outcome of calculate: the value it returns or the exception it raises
Evaluate(ops, operation, operands) ==
    IF operation \notin DOMAIN ops
    THEN UnknownOperation(operation)
    ELSE Dispatch(ops, operation, operands)

\* json.dumps({"time": "now"})
Timestamp == "{\"time\": \"now\"}"

Calculation_TruncatesOperands(operation, operands, result) ==
    [operation |-> operation,
     operands  |-> SubSeq(operands, 1, IF Len(operands) < 2 THEN Len(operands) ELSE 2),
     result    |-> result,
     timestamp |-> Timestamp]

\* the Calculation record calculate builds; list(operands) copies the tuple
Calculation(operation, operands, result) ==
    [operation |-> operation,
     operands  |-> operands,
     result    |-> result,
     timestamp |-> Timestamp]

---------------------------------------------------------------------------
(* The calls the specifications make *)

\* the calls of main(), in order
DemoCalls ==
    << <<"+", <<2, 3>>>>, <<"-", <<10, 4>>>>, <<"*", <<5, 6>>>>,
       <<"/", <<15, 3>>>>, <<"**", <<2, 8>>>>, <<"sqrt", <<16>>>>,
       <<"log", <<100>>>> >>

\* calls that fail: unknown operation, wrong operand counts, math errors
ErrorCalls ==
    { <<"foo", <<1, 2>>>>, <<"+", <<2>>>>, <<"sqrt", <<-1, 2>>>>,
      <<"/", <<15, 0>>>>, <<"sqrt", <<-1>>>>, <<"log", <<0>>>> }

SeqCalls == {DemoCalls[i] : i \in 1..Len(DemoCalls)} \cup ErrorCalls

AllSymbols == Symbols \cup UnknownSymbols

OperandSeqs == UNION {[1..n -> Values] : n \in 0..MaxOperands}

\* the history after the first k calls of main()
RECURSIVE DemoHistory(_)
DemoHistory(k) ==
    IF k = 0 THEN <<>>
    ELSE LET c   == DemoCalls[k]
             out == Evaluate(OperationTable, c[1], c[2])
         IN  IF out.kind = "return"
             THEN Append(DemoHistory(k - 1), Calculation(c[1], c[2], out.value))
             ELSE DemoHistory(k - 1)

---------------------------------------------------------------------------
(* State *)

\* the list self.history refers to
History == heap[history]

NoOutcome == [kind |-> "none", value |-> NoValue, exc |-> NoExc]

NoCall == [api |-> "init", operation |-> "", operands |-> <<>>, outcome |-> NoOutcome]

\* Calculator(): a fresh empty list and the operation table
Init ==
    /\ heap = << <<>> >>
    /\ history = 1
    /\ operations = OperationTable
    /\ view = <<>>
    /\ last = NoCall
    /\ okCalls = 0

---------------------------------------------------------------------------
(* Operations *)

calculate_RecordsFailures(operation, operands) ==
    LET out == Evaluate(operations, operation, operands)
    IN  /\ heap' = [heap EXCEPT ![history] =
                       Append(@, Calculation(operation, operands, out.value))]
        /\ okCalls' = IF out.kind = "return" THEN okCalls + 1 ELSE okCalls
        /\ last' = [api |-> "calculate", operation |-> operation,
                    operands |-> operands, outcome |-> out]
        /\ UNCHANGED <<history, operations, view>>

\* calculate(operation, *operands); okCalls counts the calls that returned
\* since the history was last emptied
calculate(operation, operands) ==
    LET out == Evaluate(operations, operation, operands)
    IN  /\ heap' = IF out.kind = "return"
                   THEN [heap EXCEPT ![history] =
                            Append(@, Calculation(operation, operands, out.value))]
                   ELSE heap
        /\ okCalls' = IF out.kind = "return" THEN okCalls + 1 ELSE okCalls
        /\ last' = [api |-> "calculate", operation |-> operation,
                    operands |-> operands, outcome |-> out]
        /\ UNCHANGED <<history, operations, view>>

\* get_history(): returns the reference self.history holds; view is the
\* caller's variable it lands in (empty while the caller holds none)
get_history ==
    /\ view' = <<history>>
    /\ last' = [NoCall EXCEPT !.api = "get_history"]
    /\ UNCHANGED <<heap, history, operations, okCalls>>

clear_history_Rebinds ==
    /\ heap' = Append(heap, <<>>)
    /\ history' = Len(heap) + 1
    /\ okCalls' = 0
    /\ last' = [NoCall EXCEPT !.api = "clear_history"]
    /\ UNCHANGED <<operations, view>>

clear_history_DropsLast ==
    /\ heap' = [heap EXCEPT ![history] =
                   IF @ = <<>> THEN @ ELSE SubSeq(@, 1, Len(@) - 1)]
    /\ okCalls' = 0
    /\ last' = [NoCall EXCEPT !.api = "clear_history"]
    /\ UNCHANGED <<history, operations, view>>

\* clear_history(): self.history.clear() empties the list in place
clear_history ==
    /\ heap' = [heap EXCEPT ![history] = <<>>]
    /\ okCalls' = 0
    /\ last' = [NoCall EXCEPT !.api = "clear_history"]
    /\ UNCHANGED <<history, operations, view>>

---------------------------------------------------------------------------
(* Spec: any sequence of the three operations on one Calculator, with the *)
(* calls of SeqCalls                                                       *)

Calculate ==
    \E c \in SeqCalls : Len(History) < MaxHist /\ calculate(c[1], c[2])

GetHistory == get_history

ClearHistory == clear_history

Next == Calculate \/ GetHistory \/ ClearHistory

Spec == Init /\ [][Next]_vars

---------------------------------------------------------------------------
(* SpecCalc: one calculate call, with any symbol and any operands of       *)
(* OperandSeqs, on a Calculator that main() has brought to some point      *)

InitCalc ==
    \E k \in 0..Len(DemoCalls) :
        /\ heap = << DemoHistory(k) >>
        /\ history = 1
        /\ operations = OperationTable
        /\ view = <<>>
        /\ last = NoCall
        /\ okCalls = Len(DemoHistory(k))

CalculateOnce ==
    \E operation \in AllSymbols, operands \in OperandSeqs :
        last.api = "init" /\ calculate(operation, operands)

NextCalc == CalculateOnce

SpecCalc == InitCalc /\ [][NextCalc]_vars

---------------------------------------------------------------------------
(* Vocabulary of the properties *)

Returned(out) == out.kind = "return"

Failed(out) == out.kind = "raise"

IsValueError(out) == Failed(out) /\ out.exc.type = "ValueError"

\* the two kinds of error of calculate: both are ValueError, told apart by
\* the message
IsUnknownOperation(out, operation) ==
    IsValueError(out) /\ out.exc.msg = "Unknown operation: " \o operation

IsInvalidArgument(out, operation) ==
    IsValueError(out) /\ ~IsUnknownOperation(out, operation)

IsCountError(out, operation) ==
    /\ IsValueError(out)
    /\ out.exc.msg \in {"Operation " \o operation \o " requires 1-2 operands",
                        "Operation " \o operation \o " requires at least 2 operands"}

BinarySymbols == {"+", "-", "*", "/", "**"}

\* this step is a calculate call; last' holds its arguments and outcome
CalcStep == last'.api = "calculate"

\* the step appended exactly one record, that of the call in last'
AppendedOne ==
    /\ Len(History') = Len(History) + 1
    /\ SubSeq(History', 1, Len(History)) = History
    /\ History'[Len(History')].operation = last'.operation
    /\ History'[Len(History')].operands = last'.operands
    /\ History'[Len(History')].result = last'.outcome.value

\* the last record of the history is that of the call in last
LastRecorded ==
    /\ History # <<>>
    /\ History[Len(History)].operation = last.operation
    /\ History[Len(History)].operands = last.operands
    /\ History[Len(History)].result = last.outcome.value

\* the call breaks a math precondition of its operation
MathViolation(operation, operands) ==
    \/ operation = "/" /\ Len(operands) >= 2 /\ operands[2] = 0
    \/ operation = "sqrt" /\ Len(operands) >= 1 /\ operands[1] < 0
    \/ /\ operation = "log"
       /\ Len(operands) >= 1
       /\ (operands[1] <= 0 \/ (Len(operands) >= 2 /\ operands[2] <= 0))

---------------------------------------------------------------------------
(* Properties *)

\* C1: after any sequence of calculate, get_history and clear_history calls
\* the length of the history is the number of calculate calls that returned
\* since the last clear_history (or since creation); a calculate call that
\* fails leaves the history exactly as it was.
C1_HistoryCountsSuccesses ==
    /\ [](Len(History) = okCalls)
    /\ [][CalcStep /\ Failed(last'.outcome) => History' = History]_vars

C1_Witness ==
    /\ last.api = "calculate"
    /\ Failed(last.outcome)
    /\ okCalls = 2
    /\ Len(History) = 2

\* C2: a calculate call that returns leaves the earlier records as they were,
\* in order, and adds one last record holding the symbol passed, the full
\* operand sequence passed and the value returned.
C2_SuccessAppendsExactRecord ==
    [][CalcStep /\ Returned(last'.outcome) => AppendedOne]_vars

C2_Witness ==
    /\ last.api = "calculate"
    /\ Returned(last.outcome)
    /\ last.operation = "log"
    /\ Len(last.operands) = 1
    /\ Len(History) >= 3
    /\ History[Len(History)].operands = last.operands

\* C3: a calculate call that breaks a math precondition ('/' by 0, sqrt of a
\* negative, log of a non-positive argument or base) fails with an
\* invalid-argument error and leaves the history unchanged.
C3_MathViolationFails ==
    [][CalcStep /\ MathViolation(last'.operation, last'.operands)
         => /\ IsInvalidArgument(last'.outcome, last'.operation)
            /\ History' = History]_vars

C3_Witness ==
    /\ last.api = "calculate"
    /\ last.operation = "/"
    /\ last.operands = <<-1, 0>>
    /\ IsInvalidArgument(last.outcome, "/")
    /\ Len(History) >= 1

\* C4: with a symbol outside the operation table calculate fails with the
\* unknown-operation error whatever the operands and their count, before any
\* operand-count validation, and leaves the history unchanged.
C4_UnknownOperationFirst ==
    [][CalcStep /\ last'.operation \notin Symbols
         => /\ IsUnknownOperation(last'.outcome, last'.operation)
            /\ History' = History]_vars

C4_Witness ==
    /\ last.api = "calculate"
    /\ last.operation = "foo"
    /\ last.operands = <<>>
    /\ IsUnknownOperation(last.outcome, "foo")
    /\ Len(History) >= 1

\* C5: sqrt is accepted with exactly 1 operand and log with 1 or 2; with any
\* other count the call fails with the operand-count error, whatever the
\* operand values, and the history is unchanged.
C5_OperandCountValidation ==
    [][CalcStep /\ last'.operation \in {"sqrt", "log"}
         => LET n     == Len(last'.operands)
                legal == IF last'.operation = "sqrt" THEN {1} ELSE {1, 2}
            IN  /\ IsCountError(last'.outcome, last'.operation) <=> n \notin legal
                /\ n \notin legal => History' = History]_vars

C5_Witness ==
    /\ last.api = "calculate"
    /\ last.operation = "sqrt"
    /\ last.operands = <<-1, 2>>
    /\ IsCountError(last.outcome, "sqrt")

\* C6: log with 1 or 2 operands, the base being 10 when omitted, returns and
\* records for every argument > 0 and base > 0, and fails with an
\* invalid-argument error exactly when the argument or the base is <= 0.
C6_LogSucceedsOnPositive ==
    (last.api = "calculate" /\ last.operation = "log" /\ Len(last.operands) \in {1, 2})
    => LET a    == last.operands[1]
           base == IF Len(last.operands) = 2 THEN last.operands[2] ELSE DefaultBase
       IN  /\ (a > 0 /\ base > 0) => (Returned(last.outcome) /\ LastRecorded)
           /\ IsInvalidArgument(last.outcome, "log") <=> (a <= 0 \/ base <= 0)

\* C7: '+', '-', '*' and '**' have no error condition: a call with one of
\* them fails only with one of the two kinds of error of calculate (never
\* with another exception), and with at least two operands it returns and
\* records, for every pair of operands.
C7_NoErrorForArithmetic ==
    (last.api = "calculate" /\ last.operation \in {"+", "-", "*", "**"})
    => /\ Failed(last.outcome) => IsValueError(last.outcome)
       /\ Len(last.operands) >= 2 => (Returned(last.outcome) /\ LastRecorded)

\* C8: a binary operation with fewer than 2 operands fails with an
\* invalid-argument error and leaves the history unchanged; with more than 2
\* its outcome is that of the call with the first two operands alone, and the
\* record appended keeps all the operands.
C8_BinaryUsesFirstTwo ==
    [][CalcStep /\ last'.operation \in BinarySymbols
         => LET xs == last'.operands
            IN  /\ Len(xs) < 2 =>
                     /\ IsInvalidArgument(last'.outcome, last'.operation)
                     /\ History' = History
                /\ Len(xs) > 2 =>
                     /\ last'.outcome =
                            Evaluate(operations, last'.operation, SubSeq(xs, 1, 2))
                     /\ Returned(last'.outcome) => AppendedOne]_vars

C8_Witness ==
    /\ last.api = "calculate"
    /\ last.operation = "/"
    /\ last.operands = <<1, 2, 0>>
    /\ last.outcome = Return(Rat(1, 2))
    /\ History[Len(History)].operands = <<1, 2, 0>>

\* C9: clear_history empties the whole history, so that get_history then
\* returns an empty sequence, and changes nothing else: the operation table
\* stays the one built at creation, and on an empty history nothing changes;
\* the next calculate that returns makes the history one record long.
C9_ClearEmpties ==
    /\ [](operations = OperationTable)
    /\ [][last'.api = "clear_history"
            => /\ History' = <<>>
               /\ operations' = operations
               /\ History = <<>> => (heap' = heap /\ history' = history)]_vars
    /\ [][last.api = "clear_history" /\ last'.api = "get_history"
            => heap'[view'[1]] = <<>>]_vars
    /\ [][History = <<>> /\ CalcStep /\ Returned(last'.outcome)
            => Len(History') = 1]_vars

C9_Witness ==
    /\ last.api = "clear_history"
    /\ History = <<>>
    /\ view = <<history>>

\* C10: the sequence get_history returned is the Calculator's own list: at
\* any later time it equals the current history, also after later calculate
\* and clear_history calls; get_history itself changes no history.
C10_ViewIsLive ==
    /\ [](view # <<>> => heap[view[1]] = History)
    /\ [][last'.api = "get_history"
            => (heap' = heap /\ history' = history /\ heap'[view'[1]] = History)]_vars

C10_Witness ==
    /\ view # <<>>
    /\ last.api = "calculate"
    /\ Returned(last.outcome)
    /\ Len(heap[view[1]]) >= 2
    /\ heap[view[1]][Len(heap[view[1]])].operation = last.operation

====
